---- MODULE Spec2Model ----
(***************************************************************************)
(* Model of the document-intelligence core:                                *)
(*   src/src/docparse.py   parse_pdf_to_sections  (the Segmenter)          *)
(*   src/src/relevance.py  RelevanceAnalyzer      (ranking, summarization) *)
(*   src/api.py            analyze_documents      (the batch loop)         *)
(* Text is a sequence of one-character strings, so that strip(), split()   *)
(* and endswith() are computed rather than assumed.  Font sizes are kept   *)
(* in half points, so that round() is computed as Python computes it.      *)
(***************************************************************************)
EXTENDS Integers, Sequences, FiniteSets, TLC

\* ------------------------------------------------------------------ bounds
\* pages of a document
MaxPages == 2
\* text blocks of a document, over all its pages
MaxBlocks == 3
\* files of one request
MaxFiles == 2
\* sections handed to rank_sections and analyze_subsections
MaxSections == 3
\* similarity levels 0..MaxScore
MaxScore == 1
\* top_n_sections and top_k_sentences are counts, 0..MaxTopN and 0..MaxTopK
MaxTopN == 2
MaxTopK == 2

\* ------------------------------------------------------- program constants
MaxHeadingWords == 15
TitleMargin == 2
DefaultBodySize == 10

\* ------------------------------------------------------------------- text
SP == " "
Introduction == <<"I", "n", "t", "r", "o", "d", "u", "c", "t", "i", "o", "n">>

RECURSIVE LStrip(_)
LStrip(s) == IF s = <<>> THEN <<>>
             ELSE IF Head(s) = SP THEN LStrip(Tail(s)) ELSE s

RECURSIVE RStrip(_)
RStrip(s) == IF s = <<>> THEN <<>>
             ELSE IF s[Len(s)] = SP THEN RStrip(SubSeq(s, 1, Len(s) - 1)) ELSE s

\* str.strip()
Strip(s) == RStrip(LStrip(s))

\* first whitespace-delimited word of a text that does not start with a space
RECURSIVE FirstWord(_)
FirstWord(s) == IF s = <<>> \/ Head(s) = SP THEN <<>>
                ELSE <<Head(s)>> \o FirstWord(Tail(s))

\* str.split(): the maximal runs of non-whitespace characters, in order
RECURSIVE Words(_)
Words(s) == LET t == LStrip(s) IN
            IF t = <<>> THEN <<>>
            ELSE LET w == FirstWord(t) IN
                 <<w>> \o Words(SubSeq(t, Len(w) + 1, Len(t)))

\* str.endswith('.')
EndsWithPeriod(s) == s # <<>> /\ s[Len(s)] = "."

\* " ".join(texts)
RECURSIVE Join(_)
Join(ts) == IF ts = <<>> THEN <<>>
            ELSE IF Len(ts) = 1 THEN ts[1]
            ELSE ts[1] \o <<SP>> \o Join(Tail(ts))

\* ------------------------------------------------------------ page layout
\* a text of MaxHeadingWords one-letter words
RECURSIVE Wordy(_)
Wordy(n) == IF n = 0 THEN <<>>
            ELSE IF n = 1 THEN <<"w">>
            ELSE <<"w", SP>> \o Wordy(n - 1)

Span(t, h) == [text |-> t, size |-> h]
Block(ss) == [type |-> 0, spans |-> ss]

\* font sizes are in half points: 21 is 10.5pt, 25 is 12.5pt
\* the text blocks a page is made of (get_text("dict", flags=11) returns no
\* image blocks: flag 4, TEXT_PRESERVE_IMAGES, is not set)
BlockSamples ==
  { Block(<<Span(<<"a">>, 21)>>),
    Block(<<Span(<<"a">>, 21), Span(<<"b", ".">>, 21)>>),
    Block(<<Span(<<"T">>, 25)>>),
    Block(<<Span(<<"b", ".">>, 25)>>),
    Block(<<Span(<<SP>>, 25)>>),
    Block(<<Span(Wordy(MaxHeadingWords), 25)>>) }

SeqsUpTo(S, n) == UNION { [1..k -> S] : k \in 0..n }

\* the layouts of a page of at most n blocks
Pages(n) == SeqsUpTo(BlockSamples, n)

\* --------------------------------------------------------------- Segmenter
\* round() of a size given in half points: halves go to the even integer
Round(h) == IF h % 2 = 0 THEN h \div 2
            ELSE LET lo == (h - 1) \div 2 IN IF lo % 2 = 0 THEN lo ELSE lo + 1

\* the spans of a block, and of all blocks of a page, in reading order
RECURSIVE PageSpans(_)
PageSpans(blocks) == IF blocks = <<>> THEN <<>>
                     ELSE Head(blocks).spans \o PageSpans(Tail(blocks))

Count(sp, k) == Cardinality({ i \in 1..Len(sp) : Round(sp[i].size) = k })

\* max(font_sizes, key=font_sizes.get): the most frequent rounded size, the
\* one inserted first among equally frequent ones; 10 when the page has no span
BodyFontSize(blocks) ==
  LET sp == PageSpans(blocks) IN
  IF sp = <<>> THEN DefaultBodySize
  ELSE LET best == CHOOSE i \in 1..Len(sp) :
                     /\ \A j \in 1..Len(sp) :
                          Count(sp, Round(sp[j].size)) <= Count(sp, Round(sp[i].size))
                     /\ \A j \in 1..(i - 1) :
                          Count(sp, Round(sp[j].size)) < Count(sp, Round(sp[i].size))
       IN Round(sp[best].size)

\* block_text before strip(): every span text followed by one space
RECURSIVE RawText(_)
RawText(spans) == IF spans = <<>> THEN <<>>
                  ELSE Head(spans).text \o <<SP>> \o RawText(Tail(spans))

BlockText(b) == Strip(RawText(b.spans))

RECURSIVE SizeSum(_)
SizeSum(spans) == IF spans = <<>> THEN 0
                  ELSE Head(spans).size + SizeSum(Tail(spans))

\* avg_font_size > body_font_size + 2, with avg = sum / span_count (0 when
\* the block has no span), on sizes in half points
AvgExceeds(b, body) ==
  /\ Len(b.spans) > 0
  /\ SizeSum(b.spans) > 2 * Len(b.spans) * (body + TitleMargin)

IsTitle(b, body) ==
  /\ AvgExceeds(b, body)
  /\ Len(Words(BlockText(b))) < MaxHeadingWords
  /\ ~EndsWithPeriod(BlockText(b))

Section(doc_name, page, title, text) ==
  [document |-> doc_name, page_number |-> page,
   section_title |-> title, section_text |-> Strip(text)]

\* a flush that lacks the emptiness test
FlushSectionAlways(secs, doc_name, page_idx, title, text) ==
  Append(secs, Section(doc_name, page_idx + 1, title, text))

\* if current_text.strip(): sections.append({...})
FlushSection(secs, doc_name, page_idx, title, text) ==
  IF Strip(text) # <<>>
  THEN Append(secs, Section(doc_name, page_idx + 1, title, text))
  ELSE secs

\* the flush after the page loop left out
FinalSectionsMissing(secs, doc_name, page_idx, title, text) == secs

\* "Add the last section" (lines 73-80)
FinalSections(secs, doc_name, page_idx, title, text) ==
  FlushSection(secs, doc_name, page_idx, title, text)

\* "=" written for "+=": the accumulated text is overwritten
AppendBodyReset(text, block_text) == block_text \o <<SP>>

\* current_text += block_text + " "
AppendBody(text, block_text) == text \o block_text \o <<SP>>

VARIABLES
  pc,             \* position in parse_pdf_to_sections: call, loop, done, raised
  doc_filename,   \* the doc_filename argument
  doc,            \* the pymupdf document: none, open, closed
  page_num,       \* the loop variable of enumerate(doc); -1 before the first page
  blocks_read,    \* the number of blocks of the document read so far
  current_title,
  current_text,
  sections,
  \* what the loop has read so far, kept to state the contract against it
  start_pages,    \* per emitted section, the page its first text was read on
  current_start,  \* the same for the running section; 0 while it has no text
  body_words,     \* the words of all non-heading blocks read, in order
  saw_heading     \* some block was taken as a heading

segVars == <<pc, doc_filename, doc, page_num, blocks_read, current_title,
             current_text, sections,
             start_pages, current_start, body_words, saw_heading>>

VARIABLES
  api_pc,         \* position in analyze_documents: none (not running),
                  \* parsing, pooled, ranking, http400, aborted
  saved_files,    \* the uploaded files, in order
  file_idx,       \* the file the loop at line 193 is at
  all_sections,
  file_info

apiVars == <<api_pc, saved_files, file_idx, all_sections, file_info>>

VARIABLES
  rpc,                  \* none (not running), rank_call, ranked, loop, returned
  heap,                 \* the section dicts, by object identity
  in_sections,          \* the sections argument of rank_sections
  ranked_sections,
  rank_encodes,         \* model.encode calls made by rank_sections
  analyze_encodes,      \* model.encode calls made by analyze_subsections
  top_n_sections,
  top_k_sentences,
  analysis_results,
  sec_idx,              \* position of the loop at line 47 in the slice
  sentences,            \* locals of the last iteration of that loop
  cosine_scores,
  top_sentence_indices,
  sorted_indices

relVars == <<rpc, heap, in_sections, ranked_sections, rank_encodes,
             analyze_encodes, top_n_sections, top_k_sentences,
             analysis_results, sec_idx,
             sentences, cosine_scores, top_sentence_indices, sorted_indices>>

vars == <<segVars, apiVars, relVars>>

\* the loop body for one block (lines 36-71), on the running state st
ProcessBlock(st, b, pnum, body, doc_name) ==
  IF b.type = 0
  THEN LET block_text == BlockText(b) IN
       IF IsTitle(b, body) /\ block_text # <<>>
       THEN LET secs == FlushSection(st.secs, doc_name, pnum, st.title, st.text) IN
            [st EXCEPT !.secs = secs,
                       !.starts = IF Len(secs) > Len(st.secs)
                                  THEN Append(st.starts, st.start)
                                  ELSE st.starts,
                       !.title = block_text,
                       !.text = <<>>,
                       !.start = pnum + 1,
                       !.saw = TRUE]
       ELSE [st EXCEPT !.text = AppendBody(st.text, block_text),
                       !.words = st.words \o Words(block_text),
                       !.start = IF st.start = 0 /\ block_text # <<>>
                                 THEN pnum + 1 ELSE st.start]
  ELSE st

\* for b in blocks
RECURSIVE ProcessBlocks(_, _, _, _, _)
ProcessBlocks(st, blocks, pnum, body, doc_name) ==
  IF blocks = <<>> THEN st
  ELSE ProcessBlocks(ProcessBlock(st, Head(blocks), pnum, body, doc_name),
                     Tail(blocks), pnum, body, doc_name)

SegInit ==
  /\ pc = "call"
  /\ doc_filename = "doc1.pdf"
  /\ doc = "none"
  /\ page_num = -1
  /\ blocks_read = 0
  /\ current_title = Introduction
  /\ current_text = <<>>
  /\ sections = <<>>
  /\ start_pages = <<>>
  /\ current_start = 0
  /\ body_words = <<>>
  /\ saw_heading = FALSE

\* pymupdf.open(pdf_path) raises: the error is printed and [] is returned
OpenFails ==
  /\ pc = "call"
  /\ pc' = "done"
  /\ sections' = <<>>
  /\ UNCHANGED <<doc_filename, doc, page_num, blocks_read, current_title,
                 current_text,
                 start_pages, current_start, body_words, saw_heading>>
  /\ UNCHANGED <<apiVars, relVars>>

\* pymupdf.open(pdf_path) succeeds: lines 17-18
Open ==
  /\ pc = "call"
  /\ pc' = "loop"
  /\ doc' = "open"
  /\ current_title' = Introduction
  /\ current_text' = <<>>
  /\ UNCHANGED <<doc_filename, page_num, blocks_read, sections,
                 start_pages, current_start, body_words, saw_heading>>
  /\ UNCHANGED <<apiVars, relVars>>

\* one iteration of "for page_num, page in enumerate(doc)" on a page whose
\* layout is blocks (lines 20-71)
ReadPage(pageSet, maxPages) ==
  /\ pc = "loop"
  /\ page_num + 1 < maxPages
  /\ \E blocks \in pageSet :
       /\ blocks_read + Len(blocks) <= MaxBlocks
       /\ blocks_read' = blocks_read + Len(blocks)
       /\ LET st0 == [title |-> current_title, text |-> current_text,
                      secs |-> sections, starts |-> start_pages,
                      start |-> current_start, words |-> body_words,
                      saw |-> saw_heading]
              st == IF blocks = <<>> THEN st0
                    ELSE ProcessBlocks(st0, blocks, page_num + 1,
                                       BodyFontSize(blocks), doc_filename)
          IN /\ page_num' = page_num + 1
             /\ current_title' = st.title
             /\ current_text' = st.text
             /\ sections' = st.secs
             /\ start_pages' = st.starts
             /\ current_start' = st.start
             /\ body_words' = st.words
             /\ saw_heading' = st.saw
  /\ UNCHANGED <<pc, doc_filename, doc>>
  /\ UNCHANGED <<apiVars, relVars>>

\* page.get_text("dict", flags=11) raises on some page: nothing in the
\* function catches it, so the call ends with the exception
GetTextFails(maxPages) ==
  /\ pc = "loop"
  /\ page_num + 1 < maxPages
  /\ pc' = "raised"
  /\ page_num' = page_num + 1
  /\ UNCHANGED <<doc_filename, doc, blocks_read, current_title, current_text, sections,
                 start_pages, current_start, body_words, saw_heading>>
  /\ UNCHANGED <<apiVars, relVars>>

\* the document has no further page: lines 73-83
Finish ==
  /\ pc = "loop"
  /\ LET secs == FinalSections(sections, doc_filename, page_num,
                               current_title, current_text)
     IN /\ sections' = secs
        /\ start_pages' = IF Len(secs) > Len(sections)
                          THEN Append(start_pages, current_start)
                          ELSE start_pages
  /\ doc' = "closed"
  /\ pc' = "done"
  /\ UNCHANGED <<doc_filename, page_num, blocks_read, current_title,
                 current_text, current_start, body_words, saw_heading>>
  /\ UNCHANGED <<apiVars, relVars>>

\* ---------------------------------------------- analyze_documents (api.py)

FileNames == <<"doc1.pdf", "doc2.pdf", "doc3.pdf">>

\* the page layouts the uploaded documents are made of
BatchPages ==
  { <<>>,
    <<Block(<<Span(<<"a">>, 21)>>)>>,
    <<Block(<<Span(<<"a">>, 21)>>), Block(<<Span(<<"T">>, 25)>>)>> }

ApiIdle ==
  /\ api_pc = "none"
  /\ saved_files = <<>>
  /\ file_idx = 0
  /\ all_sections = <<>>
  /\ file_info = <<>>

\* lines 189-194: the request has saved its files and calls
\* parse_pdf_to_sections for the first of them
ApiInit ==
  /\ api_pc = "parsing"
  /\ \E n \in 1..MaxFiles : saved_files = SubSeq(FileNames, 1, n)
  /\ file_idx = 1
  /\ all_sections = <<>>
  /\ file_info = <<>>

\* lines 195-198, then the next iteration of the loop at line 193
ExtendSections ==
  /\ api_pc = "parsing"
  /\ pc = "done"
  /\ all_sections' = all_sections \o sections
  /\ file_info' = Append(file_info, [filename |-> doc_filename,
                                     sections_found |-> Len(sections)])
  /\ IF file_idx < Len(saved_files)
     THEN /\ file_idx' = file_idx + 1
          /\ doc_filename' = saved_files[file_idx + 1]
          /\ pc' = "call"
          /\ doc' = "none"
          /\ page_num' = -1
          /\ blocks_read' = 0
          /\ current_title' = Introduction
          /\ current_text' = <<>>
          /\ sections' = <<>>
          /\ start_pages' = <<>>
          /\ current_start' = 0
          /\ body_words' = <<>>
          /\ saw_heading' = FALSE
          /\ UNCHANGED api_pc
     ELSE /\ api_pc' = "pooled"
          /\ UNCHANGED <<file_idx, segVars>>
  /\ UNCHANGED saved_files
  /\ UNCHANGED relVars

\* the exception of parse_pdf_to_sections leaves analyze_documents, which has
\* no handler around line 194: the request ends with it
ParseRaises ==
  /\ api_pc = "parsing"
  /\ pc = "raised"
  /\ api_pc' = "aborted"
  /\ UNCHANGED <<saved_files, file_idx, all_sections, file_info, segVars>>
  /\ UNCHANGED relVars

\* lines 200-204
NoSections ==
  /\ api_pc = "pooled"
  /\ all_sections = <<>>
  /\ api_pc' = "http400"
  /\ UNCHANGED <<saved_files, file_idx, all_sections, file_info, segVars>>
  /\ UNCHANGED relVars

\* line 207: the pool goes to rank_sections
StartRanking ==
  /\ api_pc = "pooled"
  /\ all_sections # <<>>
  /\ api_pc' = "ranking"
  /\ UNCHANGED <<saved_files, file_idx, all_sections, file_info, segVars>>
  /\ UNCHANGED relVars

\* ------------------------------------------- RelevanceAnalyzer (relevance.py)

Min(a, b) == IF a < b THEN a ELSE b
Max(a, b) == IF a > b THEN a ELSE b

\* cosine similarities, as levels 0..MaxScore
Scores == 0..MaxScore

\* the sections handed to rank_sections
SectionSamples ==
  { [document |-> "doc1.pdf", page_number |-> 1,
     section_title |-> Introduction, section_text |-> <<"a", ".">>],
    [document |-> "doc1.pdf", page_number |-> 2,
     section_title |-> <<"T">>,
     section_text |-> <<"a", ".", SP, "b", ".", SP, "c", ".">>],
    [document |-> "doc2.pdf", page_number |-> 1,
     section_title |-> Introduction, section_text |-> <<>>] }

\* position of the first period that ends a sentence (one followed by
\* whitespace or by the end of the text), 0 if there is none
SentenceEnd(t) ==
  LET ends == { i \in 1..Len(t) : t[i] = "." /\ (i = Len(t) \/ t[i + 1] = SP) }
  IN IF ends = {} THEN 0 ELSE CHOOSE i \in ends : \A j \in ends : i <= j

\* nltk.sent_tokenize(text): the sentences of the text in order, none for a
\* text without any non-whitespace character
RECURSIVE SentTokenize(_)
SentTokenize(text) ==
  LET t == Strip(text) IN
  IF t = <<>> THEN <<>>
  ELSE LET e == SentenceEnd(t) IN
       IF e = 0 THEN <<t>>
       ELSE <<SubSeq(t, 1, e)>> \o SentTokenize(SubSeq(t, e + 1, Len(t)))

\* Lists hold references: a section is an index into heap, the dicts.

\* insertion of a section into a list sorted by descending score, behind the
\* sections of equal score
RECURSIVE InsertDesc(_, _, _)
InsertDesc(sorted, x, h) ==
  IF sorted = <<>> THEN <<x>>
  ELSE IF h[Head(sorted)].relevance_score >= h[x].relevance_score
       THEN <<Head(sorted)>> \o InsertDesc(Tail(sorted), x, h)
       ELSE <<x>> \o sorted

RECURSIVE SortFrom(_, _, _)
SortFrom(sorted, rest, h) ==
  IF rest = <<>> THEN sorted
  ELSE SortFrom(InsertDesc(sorted, Head(rest), h), Tail(rest), h)

Reverse(q) == [i \in 1..Len(q) |-> q[Len(q) + 1 - i]]

\* an ascending stable sort reversed, sorted(...)[::-1]: equal scores come
\* out in the reverse of their input order
SortedAscendingReversed(secs, h) == SortFrom(<<>>, Reverse(secs), h)

\* sorted(sections, key=lambda x: x['relevance_score'], reverse=True): stable
SortedByScore(secs, h) == SortFrom(<<>>, secs, h)

\* for i, section in enumerate(sections): section['relevance_score'] = ...
WithScores(h, secs, sc) ==
  [o \in DOMAIN h |->
     IF \E i \in 1..Len(secs) : secs[i] = o
     THEN LET i == CHOOSE j \in 1..Len(secs) :
                     secs[j] = o /\ \A m \in 1..Len(secs) : secs[m] = o => m <= j
          IN [document |-> h[o].document, page_number |-> h[o].page_number,
              section_title |-> h[o].section_title,
              section_text |-> h[o].section_text,
              relevance_score |-> sc[i]]
     ELSE h[o]]

\* for i, section in enumerate(ranked_sections): section['importance_rank'] = i + 1
RECURSIVE WithRanks(_, _, _)
WithRanks(h, ranked, i) ==
  IF i > Len(ranked) THEN h
  ELSE WithRanks(
         [h EXCEPT ![ranked[i]] =
            [document |-> @.document, page_number |-> @.page_number,
             section_title |-> @.section_title, section_text |-> @.section_text,
             relevance_score |-> @.relevance_score, importance_rank |-> i]],
         ranked, i + 1)

\* the slice taken one too long
SliceOneMore(q, n) == SubSeq(q, 1, Min(n + 1, Len(q)))

\* ranked_sections[:n]
Slice(q, n) ==
  IF n >= 0 THEN SubSeq(q, 1, Min(n, Len(q)))
  ELSE SubSeq(q, 1, Max(0, Len(q) + n))

IsInjective(f) == \A i, j \in DOMAIN f : f[i] = f[j] => i = j
Range(f) == { f[i] : i \in DOMAIN f }

\* torch.topk(scores, k, sorted=True).indices for 0 <= k <= len(scores): the
\* positions of k largest scores, by descending score; which of several equal
\* scores is taken, and in what order, is left to the routine
TopK(scores, k) ==
  { idx \in [1..k -> 1..Len(scores)] :
      /\ IsInjective(idx)
      /\ \A i, j \in 1..k : i < j => scores[idx[i]] >= scores[idx[j]]
      /\ \A i \in 1..k : \A m \in (1..Len(scores)) \ Range(idx) :
           scores[idx[i]] >= scores[m] }

RECURSIVE InsertInt(_, _)
InsertInt(sorted, x) ==
  IF sorted = <<>> THEN <<x>>
  ELSE IF Head(sorted) <= x THEN <<Head(sorted)>> \o InsertInt(Tail(sorted), x)
       ELSE <<x>> \o sorted

RECURSIVE SortInts(_, _)
SortInts(sorted, rest) ==
  IF rest = <<>> THEN sorted
  ELSE SortInts(InsertInt(sorted, Head(rest)), Tail(rest))

\* the indices left in the order topk returned them
SortedIndicesMissing(idx) == idx

\* sorted([idx.item() for idx in top_sentence_indices])
SortedIndices(idx) == SortInts(<<>>, idx)

\* " ".join([sentences[i] for i in sorted_indices])
RefinedText(sents, idxs) == Join([i \in 1..Len(idxs) |-> sents[idxs[i]]])

RelIdle ==
  /\ rpc = "none"
  /\ heap = <<>>
  /\ in_sections = <<>>
  /\ ranked_sections = <<>>
  /\ rank_encodes = 0
  /\ analyze_encodes = 0
  /\ top_n_sections = 0
  /\ top_k_sentences = 0
  /\ analysis_results = <<>>
  /\ sec_idx = 0
  /\ sentences = <<>>
  /\ cosine_scores = <<>>
  /\ top_sentence_indices = <<>>
  /\ sorted_indices = <<>>

\* rank_sections is called on a list of sections
RankInit ==
  /\ rpc = "rank_call"
  /\ heap \in SeqsUpTo(SectionSamples, MaxSections)
  /\ in_sections = [i \in 1..Len(heap) |-> i]
  /\ ranked_sections = <<>>
  /\ rank_encodes = 0
  /\ analyze_encodes = 0
  /\ top_n_sections = 0
  /\ top_k_sentences = 0
  /\ analysis_results = <<>>
  /\ sec_idx = 0
  /\ sentences = <<>>
  /\ cosine_scores = <<>>
  /\ top_sentence_indices = <<>>
  /\ sorted_indices = <<>>

\* rank_sections has returned, analyze_subsections is about to be called on
\* its result: the list is the one rank_sections returns for sections that
\* all have the same score, which leaves them in the order of the argument
AnalyzeInit ==
  /\ rpc = "ranked"
  /\ \E h \in SeqsUpTo(SectionSamples, MaxSections) :
       LET secs == [i \in 1..Len(h) |-> i]
           scored == WithScores(h, secs, [i \in 1..Len(h) |-> 0])
           ranked == SortedByScore(secs, scored)
       IN /\ in_sections = secs
          /\ ranked_sections = ranked
          /\ heap = WithRanks(scored, ranked, 1)
          /\ rank_encodes = IF h = <<>> THEN 0 ELSE 2
  /\ analyze_encodes = 0
  /\ top_n_sections = 0
  /\ top_k_sentences = 0
  /\ analysis_results = <<>>
  /\ sec_idx = 0
  /\ sentences = <<>>
  /\ cosine_scores = <<>>
  /\ top_sentence_indices = <<>>
  /\ sorted_indices = <<>>

\* rank_sections, lines 18-19: if not sections: return []
RankEmpty ==
  /\ rpc = "rank_call"
  /\ in_sections = <<>>
  /\ ranked_sections' = <<>>
  /\ rpc' = "ranked"
  /\ UNCHANGED <<heap, in_sections, rank_encodes, analyze_encodes,
                 top_n_sections, top_k_sentences, analysis_results, sec_idx,
                 sentences, cosine_scores, top_sentence_indices,
                 sorted_indices>>
  /\ UNCHANGED <<segVars, apiVars>>

\* rank_sections, lines 21-39: two encode calls, the scores written into the
\* sections, the sort, the ranks written into the same sections
RankSections ==
  /\ rpc = "rank_call"
  /\ in_sections # <<>>
  /\ \E sc \in [1..Len(in_sections) -> Scores] :
       LET scored == WithScores(heap, in_sections, sc)
           ranked == SortedByScore(in_sections, scored)
       IN /\ ranked_sections' = ranked
          /\ heap' = WithRanks(scored, ranked, 1)
  /\ rank_encodes' = rank_encodes + 2
  /\ rpc' = "ranked"
  /\ UNCHANGED <<in_sections, analyze_encodes, top_n_sections, top_k_sentences,
                 analysis_results, sec_idx, sentences, cosine_scores,
                 top_sentence_indices, sorted_indices>>
  /\ UNCHANGED <<segVars, apiVars>>

\* analyze_subsections is called on the result of rank_sections: lines 43-44
AnalyzeCall ==
  /\ rpc = "ranked"
  /\ \E n \in 0..MaxTopN, k \in 0..MaxTopK :
       /\ top_n_sections' = n
       /\ top_k_sentences' = k
  /\ analysis_results' = <<>>
  /\ analyze_encodes' = analyze_encodes + 1
  /\ sec_idx' = 1
  /\ rpc' = "loop"
  /\ UNCHANGED <<heap, in_sections, ranked_sections, rank_encodes, sentences,
                 cosine_scores, top_sentence_indices, sorted_indices>>
  /\ UNCHANGED <<segVars, apiVars>>

\* lines 47-52: an iteration on a section without sentences
SkipSection ==
  /\ rpc = "loop"
  /\ sec_idx <= Len(Slice(ranked_sections, top_n_sections))
  /\ LET section == heap[Slice(ranked_sections, top_n_sections)[sec_idx]] IN
       SentTokenize(section.section_text) = <<>>
  /\ sentences' = <<>>
  /\ sec_idx' = sec_idx + 1
  /\ UNCHANGED <<rpc, heap, in_sections, ranked_sections, rank_encodes,
                 analyze_encodes, top_n_sections, top_k_sentences,
                 analysis_results, cosine_scores, top_sentence_indices,
                 sorted_indices>>
  /\ UNCHANGED <<segVars, apiVars>>

\* lines 47-71: an iteration on a section with sentences
SummarizeSection ==
  /\ rpc = "loop"
  /\ sec_idx <= Len(Slice(ranked_sections, top_n_sections))
  /\ LET section == heap[Slice(ranked_sections, top_n_sections)[sec_idx]]
         sents == SentTokenize(section.section_text)
     IN /\ sents # <<>>
        /\ sentences' = sents
        /\ \E sc \in [1..Len(sents) -> Scores] :
             /\ cosine_scores' = sc
             /\ \E top \in TopK(sc, Min(top_k_sentences, Len(sents))) :
                  /\ top_sentence_indices' = top
                  /\ sorted_indices' = SortedIndices(top)
                  /\ analysis_results' =
                       Append(analysis_results,
                              [document |-> section.document,
                               refined_text |->
                                 RefinedText(sents, SortedIndices(top)),
                               page_number |-> section.page_number])
  /\ analyze_encodes' = analyze_encodes + 1
  /\ sec_idx' = sec_idx + 1
  /\ UNCHANGED <<rpc, heap, in_sections, ranked_sections, rank_encodes,
                 top_n_sections, top_k_sentences>>
  /\ UNCHANGED <<segVars, apiVars>>

\* line 73: return analysis_results; the locals of the loop end with the call
AnalyzeReturn ==
  /\ rpc = "loop"
  /\ sec_idx > Len(Slice(ranked_sections, top_n_sections))
  /\ rpc' = "returned"
  /\ sentences' = <<>>
  /\ cosine_scores' = <<>>
  /\ top_sentence_indices' = <<>>
  /\ sorted_indices' = <<>>
  /\ UNCHANGED <<heap, in_sections, ranked_sections, rank_encodes,
                 analyze_encodes, top_n_sections, top_k_sentences,
                 analysis_results, sec_idx>>
  /\ UNCHANGED <<segVars, apiVars>>

\* --------------------------------------------------------- specifications
\* one call of parse_pdf_to_sections
Init == SegInit /\ ApiIdle /\ RelIdle

Next ==
  \/ OpenFails
  \/ Open
  \/ ReadPage(Pages(MaxBlocks), MaxPages)
  \/ GetTextFails(MaxPages)
  \/ Finish

Spec == Init /\ [][Next]_vars

\* the document loop of analyze_documents
InitBatch == SegInit /\ ApiInit /\ RelIdle

NextBatch ==
  \/ OpenFails
  \/ Open
  \/ ReadPage(BatchPages, MaxPages)
  \/ GetTextFails(MaxPages)
  \/ Finish
  \/ ExtendSections
  \/ ParseRaises
  \/ NoSections
  \/ StartRanking

SpecBatch == InitBatch /\ [][NextBatch]_vars

\* one call of rank_sections
InitRank == SegInit /\ ApiIdle /\ RankInit

NextRank ==
  \/ RankEmpty
  \/ RankSections

SpecRank == InitRank /\ [][NextRank]_vars

\* one call of analyze_subsections
InitAnalyze == SegInit /\ ApiIdle /\ AnalyzeInit

NextAnalyze ==
  \/ AnalyzeCall
  \/ SkipSection
  \/ SummarizeSection
  \/ AnalyzeReturn

SpecAnalyze == InitAnalyze /\ [][NextAnalyze]_vars

\* ------------------------------------------------------ Segmenter: claims
SectionTexts(secs) == [i \in 1..Len(secs) |-> secs[i].section_text]

\* C1: every emitted section's page_number is the page on which the
\* section's first text was read (the page of its heading, or for the
\* "Introduction" section the page of its first body text), not the page of
\* the block that caused the flush and not the last page of the document.
C1_StartPage ==
  \A i \in 1..Len(sections) :
    i <= Len(start_pages) => sections[i].page_number = start_pages[i]

\* C2: every emitted section has a section_text that is non-empty after
\* trimming; a section whose accumulated text is empty is dropped.
C2_NonEmptyText ==
  \A i \in 1..Len(sections) : Strip(sections[i].section_text) # <<>>

\* sections were emitted and the section of the last heading, which gathered
\* no text, was dropped at the end of the document
C2_Witness ==
  /\ pc = "done" /\ doc = "closed"
  /\ sections # <<>>
  /\ current_title # Introduction
  /\ Strip(current_text) = <<>>
  /\ \A i \in 1..Len(sections) : sections[i].section_title # current_title

\* C3: the words of the section_texts, concatenated in the order of the
\* sections, are the words of the non-heading blocks read, in reading order:
\* nothing is lost, repeated, reordered, or taken from a heading.  While the
\* loop runs the text still accumulating counts as the last piece.
C3_BodyPreserved ==
  /\ (pc = "done" /\ doc = "closed")
       => Words(Join(SectionTexts(sections))) = body_words
  /\ pc = "loop"
       => Words(Join(SectionTexts(sections)) \o <<SP>> \o current_text) = body_words

\* a returned document of two pages with two sections, the second of which
\* began on the first page and went on gathering text on the second
C3_Witness ==
  /\ pc = "done" /\ doc = "closed"
  /\ page_num = 1
  /\ Len(sections) = 2
  /\ start_pages[2] = 1
  /\ sections[2].page_number = 2
  /\ Len(Words(sections[2].section_text)) >= 3

\* C4 as stated: a document without any heading block yields exactly one
\* section, titled "Introduction", holding all body text.
C4_ExactlyOne ==
  (pc = "done" /\ doc = "closed" /\ ~saw_heading)
    => /\ Len(sections) = 1
       /\ sections[1].section_title = Introduction
       /\ Words(sections[1].section_text) = body_words

\* C4 amended: a document without any heading block yields one section,
\* titled "Introduction" and holding all body text, when its body text is
\* non-empty after trimming, and no section otherwise.
C4_OneOrNone ==
  (pc = "done" /\ doc = "closed" /\ ~saw_heading)
    => IF body_words # <<>>
       THEN /\ Len(sections) = 1
            /\ sections[1].section_title = Introduction
            /\ Words(sections[1].section_text) = body_words
       ELSE sections = <<>>

\* a two-page document without headings came back as one section
C4_Witness ==
  /\ pc = "done" /\ doc = "closed" /\ ~saw_heading
  /\ page_num = 1
  /\ Len(sections) = 1
  /\ Len(body_words) >= 2
\* ------------------------------------------------------------ batch: claims
\* C9: a document that cannot be opened, or whose layout cannot be read on
\* some page, makes parse_pdf_to_sections return an empty list instead of
\* raising, so the loop of analyze_documents goes on to the other documents.
C9_FailureIsolated == pc # "raised" /\ api_pc # "aborted"

\* ------------------------------------------------- RelevanceAnalyzer: claims
Score(o) == heap[o].relevance_score

\* C5: rank_sections returns the same N sections, importance_rank is 1..N
\* along the list, relevance_score does not increase along the list, and
\* sections of equal score keep the order they had in the argument.
C5_Ranked ==
  rpc # "rank_call" =>
    LET N == Len(in_sections) IN
    /\ Len(ranked_sections) = N
    /\ Range(ranked_sections) = Range(in_sections)
    /\ \A k \in 1..N : heap[ranked_sections[k]].importance_rank = k
    /\ \A k \in 1..(N - 1) :
         Score(ranked_sections[k]) >= Score(ranked_sections[k + 1])
    /\ \A i, j \in 1..N :
         (i < j /\ Score(ranked_sections[i]) = Score(ranked_sections[j]))
           => ranked_sections[i] < ranked_sections[j]

\* three sections ranked: the second of the argument scored highest and came
\* first, the other two scored the same and kept their order
C5_Witness ==
  /\ rpc = "ranked"
  /\ ranked_sections = <<2, 1, 3>>
  /\ Score(2) > Score(1)
  /\ Score(1) = Score(3)
  /\ heap[2].importance_rank = 1
  /\ heap[3].importance_rank = 3

\* C6: on an empty list rank_sections and analyze_subsections return an empty
\* list without any call of model.encode.
C6_NoEncodeOnEmpty ==
  /\ (rpc # "rank_call" /\ in_sections = <<>>)
       => (ranked_sections = <<>> /\ rank_encodes = 0)
  /\ (rpc = "returned" /\ ranked_sections = <<>>)
       => (analysis_results = <<>> /\ analyze_encodes = 0)

\* C7: refined_text is made of exactly min(top_k_sentences, sentence count)
\* sentences of the section, the highest-scoring ones, each taken once, joined
\* in strictly increasing order of their position in the section.
C7_TopKInOrder ==
  (rpc \in {"loop", "returned"} /\ sentences # <<>>) =>
    LET n == Len(sentences)
        k == Len(sorted_indices)
        picked == Range(sorted_indices)
        result == analysis_results[Len(analysis_results)]
    IN /\ k = Min(top_k_sentences, n)
       /\ picked \subseteq 1..n
       /\ \A i, j \in 1..k : i < j => sorted_indices[i] < sorted_indices[j]
       /\ \A i \in picked : \A m \in (1..n) \ picked :
            cosine_scores[i] >= cosine_scores[m]
       /\ result.refined_text =
            Join([i \in 1..k |-> sentences[sorted_indices[i]]])

\* two of three sentences were taken, the third scoring above the first
C7_Witness ==
  /\ rpc \in {"loop", "returned"}
  /\ Len(sentences) = 3
  /\ top_k_sentences = 2
  /\ top_sentence_indices = <<3, 1>>
  /\ cosine_scores[3] > cosine_scores[1]
  /\ sorted_indices = <<1, 3>>
  /\ analysis_results[Len(analysis_results)].refined_text =
       <<"a", ".", SP, "c", ".">>

\* C8: every result of analyze_subsections has a non-empty refined_text,
\* whatever top_n_sections and top_k_sentences are.
C8_RefinedNonEmpty ==
  \A i \in 1..Len(analysis_results) : analysis_results[i].refined_text # <<>>

\* C10: analyze_subsections emits at most min(top_n_sections, N) results,
\* each made from one of the first top_n_sections ranked sections, with that
\* section's document and page_number, in the order of their sections.
C10_FirstTopN ==
  rpc \in {"loop", "returned"} =>
    LET P == Min(top_n_sections, Len(ranked_sections))
        R == Len(analysis_results)
    IN /\ R <= P
       /\ \E f \in [1..R -> 1..P] :
            /\ \A i, j \in 1..R : i < j => f[i] < f[j]
            /\ \A i \in 1..R :
                 /\ analysis_results[i].document
                      = heap[ranked_sections[f[i]]].document
                 /\ analysis_results[i].page_number
                      = heap[ranked_sections[f[i]]].page_number

\* two ranked sections, both with sentences, top_n_sections 1: one result,
\* made from the first section
C10_Witness ==
  /\ rpc = "returned"
  /\ Len(ranked_sections) = 2
  /\ top_n_sections = 1
  /\ Len(analysis_results) = 1
  /\ SentTokenize(heap[ranked_sections[2]].section_text) # <<>>
  /\ heap[ranked_sections[1]].page_number # heap[ranked_sections[2]].page_number
  /\ analysis_results[1].page_number = heap[ranked_sections[1]].page_number
====
